---- MODULE Spec2Model ----
(***************************************************************************)
(* Model of the notebooks of 2-dgl101: the custom message-passing module   *)
(* GraphConvWithEdgeWeight of 4_message_passing.ipynb, the user-defined    *)
(* message function u_mul_e_udf, and the kernel session they run in.       *)
(*                                                                         *)
(* Numbers are exact rationals <<num, den>> (den > 0, lowest terms): the   *)
(* tensors' floating point is abstracted to exact arithmetic.              *)
(* A tensor is a record [nd, rows, cols, v]: nd = 1 is a vector of `rows`  *)
(* numbers (cols = 0), nd = 2 a rows x cols matrix held as a sequence of   *)
(* rows.                                                                   *)
(***************************************************************************)
EXTENDS Integers, Sequences, FiniteSets, TLC

\* ------------------------------------------------------------------ bounds

\* Longest edge list of a graph drawn by Init.
MaxEdges == 2

\* ---------------------------------------------------------------- numbers

Abs(x) == IF x < 0 THEN -x ELSE x

RECURSIVE GCD(_, _)
GCD(a, b) == IF b = 0 THEN a ELSE GCD(b, a % b)

\* The rational n/d in lowest terms with a positive denominator.
Rat(n, d) ==
    LET s == IF d < 0 THEN -1 ELSE 1
        k == GCD(Abs(n), Abs(d))
    IN  <<(s * n) \div k, (s * d) \div k>>

R(k) == <<k, 1>>
RAdd(x, y) == Rat(x[1] * y[2] + y[1] * x[2], x[2] * y[2])
RMul(x, y) == Rat(x[1] * y[1], x[2] * y[2])
RDiv(x, k) == Rat(x[1], x[2] * k)
RMax0(x) == IF x[1] < 0 THEN R(0) ELSE x

RECURSIVE RSum(_)
RSum(s) == IF s = <<>> THEN R(0) ELSE RAdd(Head(s), RSum(Tail(s)))

\* ---------------------------------------------------------------- tensors

\* A sequence written out as a tuple, and a sequence of sequences likewise.
Seq1(s) == s \o <<>>
RECURSIVE Seq2(_)
Seq2(s) == IF Len(s) = 0 THEN <<>> ELSE <<Seq1(Head(s))>> \o Seq2(Tail(s))

Vec(s) == [nd |-> 1, rows |-> Len(s), cols |-> 0, v |-> Seq1(s)]
Mat(n, c, s) == [nd |-> 2, rows |-> n, cols |-> c, v |-> Seq2(s)]

Max(a, b) == IF a > b THEN a ELSE b

\* A field that a frame does not hold.
Absent == [nd |-> 0, rows |-> 0, cols |-> 0, v |-> <<>>]

\* Width of the per-item feature of a tensor as DGL's kernels see it: a 1-D
\* tensor is unsqueezed to one column.
FeatCols(t) == IF t.nd = 1 THEN 1 ELSE t.cols

\* Entry j of the feature of item i, broadcasting a width-1 feature.
FeatAt(t, i, j) ==
    IF t.nd = 1 THEN t.v[i] ELSE IF t.cols = 1 THEN t.v[i][1] ELSE t.v[i][j]

\* -------------------------------------------------- the graph and its data

Nodes == {0, 1, 2}
NumNodes == Cardinality(Nodes)

number_of_nodes(g) == NumNodes
number_of_edges(g) == Len(g)

\* Edge e of g is g[e] = <<u, v>>, from u to v; edge ids are positions.
src(g, e) == g[e][1]
dst(g, e) == g[e][2]

\* A length check that lets a tensor with too few entries through.
edata_accepts_short(g, t) == t.nd >= 1 /\ t.rows <= Len(g)

\* A field write that keeps a column the frame already holds.
set_default(frame, name, t) ==
    IF frame[name] = Absent THEN [frame EXCEPT ![name] = t] ELSE frame

\* g.ndata[name] = t and g.edata[name] = t: DGL refuses a tensor whose first
\* dimension is not the number of nodes (edges), and stores nothing then.
ndata_accepts(g, t) == t.nd >= 1 /\ t.rows = number_of_nodes(g)
edata_accepts(g, t) == t.nd >= 1 /\ t.rows = number_of_edges(g)
set_field(frame, name, t) == [frame EXCEPT ![name] = t]

\* ------------------------------------------------- dgl.function built-ins

\* fn.v_mul_e: the destination node's feature in place of the source's.
v_mul_e(g, h, w) ==
    LET c == Max(FeatCols(h), FeatCols(w))
    IN  Mat(Len(g), c,
            [e \in 1..Len(g) |->
                [j \in 1..c |-> RMul(FeatAt(h, g[e][2] + 1, j), FeatAt(w, e, j))]])

\* fn.u_add_e: the edge's feature added to the source's, not multiplied.
u_add_e(g, h, w) ==
    LET c == Max(FeatCols(h), FeatCols(w))
    IN  Mat(Len(g), c,
            [e \in 1..Len(g) |->
                [j \in 1..c |-> RAdd(FeatAt(h, g[e][1] + 1, j), FeatAt(w, e, j))]])

\* fn.u_mul_e('h', 'w', 'm'): the features broadcast when the widths agree or
\* one of them is 1.
u_mul_e_ok(h, w) ==
    FeatCols(h) = FeatCols(w) \/ FeatCols(h) = 1 \/ FeatCols(w) = 1

\* The message of edge e: the source node's feature times the edge's feature.
u_mul_e(g, h, w) ==
    LET c == Max(FeatCols(h), FeatCols(w))
    IN  Mat(Len(g), c,
            [e \in 1..Len(g) |->
                [j \in 1..c |-> RMul(FeatAt(h, src(g, e) + 1, j), FeatAt(w, e, j))]])

\* The messages of the edges entering v, in edge order.
RECURSIVE Mailbox(_, _, _, _)
Mailbox(g, m, v, e) ==
    IF e > Len(g) THEN <<>>
    ELSE IF dst(g, e) = v THEN <<m.v[e]>> \o Mailbox(g, m, v, e + 1)
    ELSE Mailbox(g, m, v, e + 1)

\* fn.sum('m', 'h_neigh'): the messages of each node summed and not divided.
sum_reduce(g, m) ==
    Mat(NumNodes, m.cols,
        [i \in 1..NumNodes |->
            [j \in 1..m.cols |->
                RSum([k \in 1..Len(Mailbox(g, m, i - 1, 1)) |->
                        Mailbox(g, m, i - 1, 1)[k][j]])]])

\* fn.mean('m', 'h_neigh'): the messages of each node summed, divided by the
\* in-degree clamped to at least 1 (a node without in-edges gets zeros).
mean(g, m) ==
    Mat(NumNodes, m.cols,
        [i \in 1..NumNodes |->
            LET box == Mailbox(g, m, i - 1, 1)
                deg == Max(Len(box), 1)
            IN  [j \in 1..m.cols |->
                    RDiv(RSum([k \in 1..Len(box) |-> box[k][j]]), deg)]])

\* The reduced feature as DGL hands it back: the column it added to two 1-D
\* operands is squeezed away again.
squeeze_scalar(h, w, t) ==
    IF h.nd = 1 /\ w.nd = 1 THEN Vec([i \in 1..t.rows |-> t.v[i][1]]) ELSE t

\* An update_all that does nothing on a graph without edges.
update_all_edges_only(g, nframe, eframe) ==
    IF number_of_edges(g) = 0 THEN nframe
    ELSE set_field(nframe, "h_neigh",
                   squeeze_scalar(nframe["h"], eframe["w"],
                                  mean(g, u_mul_e(g, nframe["h"], eframe["w"]))))

\* g.update_all(fn.u_mul_e('h', 'w', 'm'), fn.mean('m', 'h_neigh')): reads the
\* fields 'h' and 'w' and writes 'h_neigh' for every node, whatever the number
\* of edges; the messages 'm' are not stored.
update_all(g, nframe, eframe) ==
    set_field(nframe, "h_neigh",
              squeeze_scalar(nframe["h"], eframe["w"],
                             mean(g, u_mul_e(g, nframe["h"], eframe["w"]))))

\* ------------------------------------------------------------ torch pieces

\* torch.cat([b, a], dim=1): the two blocks the other way round.
cat_swapped(a, b) ==
    Mat(a.rows, a.cols + b.cols, [i \in 1..a.rows |-> b.v[i] \o a.v[i]])

\* torch.cat([a, b], dim=1)
cat_ok(a, b) == a.nd = 2 /\ b.nd = 2 /\ a.rows = b.rows
cat(a, b) == Mat(a.rows, a.cols + b.cols, [i \in 1..a.rows |-> a.v[i] \o b.v[i]])

\* A width check that lets an input narrower than 2 * in_feat through.
linear_ok_narrow(lyr, x) == x.nd = 2 /\ x.cols <= 2 * lyr.in_feat

\* nn.Linear(in_feat * 2, out_feat): x W^T + bias.
linear_ok(lyr, x) == x.nd = 2 /\ x.cols = 2 * lyr.in_feat
linear(lyr, x) ==
    Mat(x.rows, lyr.out_feat,
        [i \in 1..x.rows |->
            [o \in 1..lyr.out_feat |->
                RAdd(RSum([j \in 1..x.cols |-> RMul(lyr.weight[o][j], x.v[i][j])]),
                     lyr.bias[o])]])

\* F.relu
relu(x) == Mat(x.rows, x.cols, [i \in 1..x.rows |-> [j \in 1..x.cols |-> RMax0(x.v[i][j])]])

\* --------------------------------------------- GraphConvWithEdgeWeight

\* The ways a call of forward ends: "ok", or the exception and the line of
\* 4_message_passing.ipynb that raised it.
FeatRowsError == "DGLError@98"       \* g.ndata['h'] = h, h has not one row per node
UndefinedWeight == "DGLError@99"     \* g.edata['w'] = w, w has not one entry per edge
NameErrorFn == "NameError@101"       \* the global name fn is not bound
BroadcastError == "DGLError@101"     \* the widths of 'h' and 'w' do not broadcast
CatError == "IndexError@103"         \* torch.cat along dim 1 of 1-D tensors
DimensionMismatch == "RuntimeError@104"  \* the width is not what nn.Linear expects

\* with g.local_scope(): the frames are cloned on entry; DGL's context manager
\* puts the caller's frames back after its yield, which an exception raised
\* in the block skips.
local_scope_exit(old, local, raised) == IF raised THEN local ELSE old

Outcome(st, o, m, hn, nf, ef) ==
    [status |-> st, out |-> o, m |-> m, h_neigh |-> hn, nframe |-> nf, eframe |-> ef]

\* forward(self, g, h, w), run on the frames nframe/eframe of g in a kernel
\* whose globals are `globals`. The outcome holds what the call returned (out),
\* the messages and the h_neigh it computed, and the frames g is left with.
forward(lyr, globals, g, nframe, eframe, h, w) ==
    LET Raise(st, m, hn, nf, ef) ==
            Outcome(st, Absent, m, hn,
                    local_scope_exit(nframe, nf, TRUE),
                    local_scope_exit(eframe, ef, TRUE))
        n1 == set_field(nframe, "h", h)
        e1 == set_field(eframe, "w", w)
        n2 == update_all(g, n1, e1)
        msent == IF number_of_edges(g) = 0 THEN Absent
                 ELSE u_mul_e(g, n1["h"], e1["w"])
        h_neigh == n2["h_neigh"]
        h_total == cat(h, h_neigh)
    IN  IF ~ndata_accepts(g, h) THEN Raise(FeatRowsError, Absent, Absent, nframe, eframe)
        ELSE IF ~edata_accepts(g, w) THEN Raise(UndefinedWeight, Absent, Absent, n1, eframe)
        ELSE IF "fn" \notin globals THEN Raise(NameErrorFn, Absent, Absent, n1, e1)
        ELSE IF ~u_mul_e_ok(n1["h"], e1["w"])
            THEN Raise(BroadcastError, Absent, Absent, n1, e1)
        ELSE IF ~cat_ok(h, h_neigh) THEN Raise(CatError, msent, h_neigh, n2, e1)
        ELSE IF ~linear_ok(lyr, h_total) THEN Raise(DimensionMismatch, msent, h_neigh, n2, e1)
        ELSE Outcome("ok", relu(linear(lyr, h_total)), msent, h_neigh,
                     local_scope_exit(nframe, n2, FALSE),
                     local_scope_exit(eframe, e1, FALSE))

\* __init__(self, in_feat, out_feat): nn.Linear draws its parameters at
\* random; seed stands for the draw. weight is out_feat x 2*in_feat.
GraphConvWithEdgeWeight(in_feat, out_feat, seed) ==
    [in_feat |-> in_feat, out_feat |-> out_feat,
     weight |-> [o \in 1..out_feat |->
                    [j \in 1..(2 * in_feat) |->
                        R((IF (j + o + seed) % 2 = 0 THEN 1 ELSE -1) * (j + seed))]],
     bias |-> [o \in 1..out_feat |-> Rat(IF (o + seed) % 2 = 0 THEN 1 ELSE -1, 2)]]

NoLayer == [in_feat |-> 0, out_feat |-> 0, weight |-> <<>>, bias |-> <<>>]

\* ------------------------------------------------------- u_mul_e_udf

\* edges.src['h']: the feature of each edge's source node, one row per edge.
edges_src(g, h) == Mat(Len(g), h.cols, [e \in 1..Len(g) |-> h.v[src(g, e) + 1]])

\* a * b of torch for a 2-D a: the shapes are aligned from the last dimension,
\* so a 1-D b of length n is a 1 x n row.
torch_mul_ok(a, b) ==
    /\ a.nd = 2
    /\ \/ b.nd = 1 /\ (a.cols = b.rows \/ a.cols = 1 \/ b.rows = 1)
       \/ b.nd = 2 /\ a.rows = b.rows /\ (a.cols = b.cols \/ a.cols = 1 \/ b.cols = 1)

torch_mul(a, b) ==
    LET bc == IF b.nd = 1 THEN b.rows ELSE b.cols
        c == Max(a.cols, bc)
        A(i, j) == IF a.cols = 1 THEN a.v[i][1] ELSE a.v[i][j]
        B(i, j) == IF b.nd = 1 THEN (IF b.rows = 1 THEN b.v[1] ELSE b.v[j])
                   ELSE IF b.cols = 1 THEN b.v[i][1] ELSE b.v[i][j]
    IN  Mat(a.rows, c, [i \in 1..a.rows |-> [j \in 1..c |-> RMul(A(i, j), B(i, j))]])

\* def u_mul_e_udf(edges): return {'m' : edges.src['h'] * edges.data['w']}
u_mul_e_udf_ok(g, h, w) == torch_mul_ok(edges_src(g, h), w)
u_mul_e_udf(g, h, w) == torch_mul(edges_src(g, h), w)

\* ------------------------------------------------------------ the session

VARIABLES
    names,   \* the names bound in the kernel's global namespace
    cell,    \* how many code cells of 4_message_passing.ipynb have run
    g,       \* the caller's graph: its edge list
    ndata,   \* g.ndata: field name -> tensor, or Absent
    edata,   \* g.edata
    conv,    \* the GraphConvWithEdgeWeight instance, or NoLayer
    last,    \* the latest call of forward: its arguments and its outcome
    udf,     \* the latest update_all with u_mul_e_udf
    seen,    \* the first call of forward of the session, kept for comparison
    book,    \* the node-classification notebook the kernel runs, or "none"
    kernel,  \* that kernel: the cells run, the names bound, how the last cell ended
    data,    \* what the labels cell computed: the sample, the labeled and test nodes
    loop,    \* the training cell: epoch, position, snapshots, printed lines
    result   \* what the check-results cell computed and printed

\* The state of the node-classification notebooks of 2_gnn.ipynb.
tvars == <<book, kernel, data, loop, result>>

vars == <<names, cell, g, ndata, edata, conv, last, udf, seen, tvars>>

NFields == {"h", "h_neigh", "m"}
EFields == {"w", "m"}
NoFrame(F) == [f \in F |-> Absent]

NoCall == [called |-> FALSE, h |-> Absent, w |-> Absent, fn |-> FALSE,
           status |-> "none", out |-> Absent, m |-> Absent, h_neigh |-> Absent]
NoUdf == [status |-> "none", h |-> Absent, w |-> Absent, m |-> Absent, h_neigh |-> Absent]
NoSeen == [called |-> FALSE, h |-> Absent, w |-> Absent, fn |-> FALSE,
           status |-> "none", out |-> Absent, between |-> {}]

\* --- what the caller brings

\* All edge lists of at most MaxEdges edges (self-loops and parallel edges
\* included), in every order.
RECURSIVE EdgeLists(_)
EdgeLists(n) ==
    IF n = 0 THEN {<<>>}
    ELSE LET shorter == EdgeLists(n - 1)
         IN  shorter \cup {Append(s, <<u, v>>) : s \in {t \in shorter : Len(t) = n - 1},
                                                 u \in Nodes, v \in Nodes}
Graphs == EdgeLists(MaxEdges)

\* Feature rows and edge weights the caller draws from.
FeatRow(c, k) ==
    IF c = 1 THEN <<<<R(1)>>, <<R(-2)>>, <<R(3)>>>>[k + 1]
    ELSE <<<<R(1), R(0)>>, <<R(0), R(1)>>, <<R(0), R(0)>>>>[k + 1]
Weights == {Rat(1, 2), R(-1)}

Tuples(n, S) == [1..n -> S]

\* Node features of width 1 or 2, one row per node: the three rows of a width
\* dealt to the nodes in each rotation.
NodeFeature(c, k) == Mat(NumNodes, c, [i \in 1..NumNodes |-> FeatRow(c, (i - 1 + k) % NumNodes)])
NodeFeatures == {NodeFeature(c, k) : c \in {1, 2}, k \in 0..2}

\* A node-feature tensor that lacks the last node's row.
ShortFeatures == Mat(NumNodes - 1, 1, [i \in 1..(NumNodes - 1) |-> <<R(1)>>])

\* Edge weights of n entries: a 1-D tensor of scalars, or an n x 1 column.
EdgeWeights(n) ==
    {Vec(s) : s \in Tuples(n, Weights)}
    \cup {Mat(n, 1, [e \in 1..n |-> <<s[e]>>]) : s \in Tuples(n, Weights)}
EdgeScalars(n) == {w \in EdgeWeights(n) : w.nd = 1}

\* Edge weights that lack the last edge's entry.
ShortWeights(n) == IF n = 0 THEN {} ELSE {Vec([e \in 1..(n - 1) |-> Rat(1, 2)])}

\* Data the graph carries before any call (as a loaded graph does).
Const(n, c, k) == Mat(n, c, [i \in 1..n |-> [j \in 1..c |-> R(k)]])
OldNData ==
    {NoFrame(NFields),
     [NoFrame(NFields) EXCEPT !["h"] = Const(NumNodes, 1, 7),
                              !["h_neigh"] = Const(NumNodes, 1, 5)]}
OldEData(gr) == [NoFrame(EFields) EXCEPT !["w"] = Vec([e \in 1..Len(gr) |-> R(9)])]

\* The graphs of the session: the first edges of 0->2, 1->2, 2->2, 0->2, ...
SessionGraphs ==
    {[e \in 1..n |-> <<(e - 1) % NumNodes, NumNodes - 1>>] : n \in 0..MaxEdges}

\* The tensors the session's caller holds: well-formed and ill-formed ones.
SessionFeatures ==
    {NodeFeature(1, 0), NodeFeature(2, 0), ShortFeatures,
     Vec([i \in 1..NumNodes |-> R(i)])}
SessionWeights(n) ==
    {Vec([e \in 1..n |-> Rat(1, 2)]), Const(n, 3, 1)} \cup ShortWeights(n)

Layers == {GraphConvWithEdgeWeight(1, 2, 1), GraphConvWithEdgeWeight(2, 1, 2)}

\* --- the code cells of 4_message_passing.ipynb, top to bottom

\* import dgl / torch / torch.nn as nn / torch.nn.functional as F
CellImports ==
    /\ cell = 0
    /\ names' = names \cup {"dgl", "torch", "nn", "F"}
    /\ cell' = 1
    /\ UNCHANGED <<g, ndata, edata, conv, last, udf, seen, tvars>>

\* class GraphConvWithEdgeWeight(nn.Module): ...
CellClass ==
    /\ cell = 1
    /\ "nn" \in names
    /\ names' = names \cup {"GraphConvWithEdgeWeight"}
    /\ cell' = 2
    /\ UNCHANGED <<g, ndata, edata, conv, last, udf, seen, tvars>>

\* def u_mul_e_udf(edges): ...
CellUdf ==
    /\ cell = 2
    /\ names' = names \cup {"u_mul_e_udf"}
    /\ cell' = 3
    /\ UNCHANGED <<g, ndata, edata, conv, last, udf, seen, tvars>>

\* --- what the caller runs in the kernel

\* The notebook binds no name fn; a caller who wants forward to get past
\* line 101 binds it (import dgl.function as fn).
BindFn ==
    /\ "fn" \notin names
    /\ names' = names \cup {"fn"}
    /\ UNCHANGED <<cell, g, ndata, edata, conv, last, udf, seen, tvars>>

\* conv = GraphConvWithEdgeWeight(in_feat, out_feat), in a cell the caller adds
\* below the notebook's.
Construct ==
    /\ cell = 3
    /\ "GraphConvWithEdgeWeight" \in names
    /\ conv = NoLayer
    /\ conv' \in Layers
    /\ UNCHANGED <<names, cell, g, ndata, edata, last, udf, seen, tvars>>

\* conv(g, h, w)
Call(h, w) ==
    /\ conv # NoLayer
    /\ \E res \in {forward(conv, names, g, ndata, edata, h, w)} :
           /\ last' = [called |-> TRUE, h |-> h, w |-> w, fn |-> "fn" \in names,
                       status |-> res.status,
                       out |-> res.out, m |-> res.m, h_neigh |-> res.h_neigh]
           /\ ndata' = res.nframe
           /\ edata' = res.eframe
           /\ seen' = IF ~seen.called
                      THEN [called |-> TRUE, h |-> h, w |-> w, fn |-> "fn" \in names,
                            status |-> res.status, out |-> res.out, between |-> {}]
                      ELSE IF seen.h = h /\ seen.w = w THEN seen
                      ELSE [seen EXCEPT !.between = @ \cup {res.status = "ok"}]
    /\ UNCHANGED <<names, cell, g, conv, udf, tvars>>

\* The calls with one row per node and one weight per edge.
Forward ==
    \E h \in NodeFeatures, w \in EdgeScalars(number_of_edges(g)) : Call(h, w)

\* with g.local_scope(): g.ndata['h'] = h; g.edata['w'] = w;
\* g.update_all(u_mul_e_udf, fn.mean('m', 'h_neigh')) on a graph with edges.
UpdateAllUdf(h, w) ==
    /\ "u_mul_e_udf" \in names /\ "fn" \in names
    /\ ndata_accepts(g, h) /\ edata_accepts(g, w)
    /\ number_of_edges(g) > 0
    /\ udf' = IF u_mul_e_udf_ok(g, h, w)
              THEN LET m == u_mul_e_udf(g, h, w)
                   IN  [status |-> "ok", h |-> h, w |-> w, m |-> m, h_neigh |-> mean(g, m)]
              ELSE [status |-> "RuntimeError", h |-> h, w |-> w,
                    m |-> Absent, h_neigh |-> Absent]
    /\ UNCHANGED <<names, cell, g, ndata, edata, conv, last, seen, tvars>>

\* The calls of the session.
SessionForward ==
    \E h \in SessionFeatures, w \in SessionWeights(number_of_edges(g)) : Call(h, w)

\* One application of forward to the arguments of either weight shape, then
\* the user-defined message function on the same arguments.
ForwardAnyShape ==
    /\ ~last.called
    /\ \E h \in NodeFeatures, w \in EdgeWeights(number_of_edges(g)) : Call(h, w)

UdfOnLast ==
    /\ last.called
    /\ udf = NoUdf
    /\ UpdateAllUdf(last.h, last.w)

\* ------------------- the node-classification notebooks of 2_gnn.ipynb

\* Largest node id, next to 33, that random.sample may draw.
MaxSampleId == 3

\* The karate club graph that load_zachery() returns: Graph(num_nodes=34, ...).
num_nodes == 34
KarateNodes == 0..(num_nodes - 1)

\* for e in range(100), if e % 5 == 0, and random.sample(..., 3)
NumEpochs == 100
PrintEvery == 5
SampleSize == 3

\* The two notebooks: the CPU one (lines 1-344) and the GPU one (345-610).
Books == {"gnn", "gpu"}

\* The code cells of a notebook in order: the global names a cell reads when
\* it starts, the names it binds when it ends, and its first line. The
\* training and check-results cells read more names as they go; those are
\* in the steps below.
CellOf(kind, reads, binds, line) ==
    [kind |-> kind, reads |-> reads, binds |-> binds, line |-> line]

Cells(b) ==
    IF b = "gnn" THEN
        << CellOf("plain", {}, {"dgl", "torch", "nn", "F", "itertools"}, 36),
           CellOf("plain", {}, {"load_zachery", "g"}, 77),
           CellOf("plain", {"nn", "g"}, {"node_embed", "inputs"}, 141),
           CellOf("labels", {"g"}, {"random", "np", "labels", "train_nodes", "test_nodes"}, 171),
           CellOf("plain", {"nn"}, {"SAGEConv", "GraphSAGE", "net"}, 207),
           CellOf("train", {"torch", "itertools", "net", "node_embed"},
                  {"optimizer", "all_logits"}, 263),
           CellOf("check", {"torch", "logits", "labels", "test_nodes"}, {"pred"}, 301) >>
    ELSE
        << CellOf("plain", {}, {"dgl", "torch", "nn", "F", "itertools"}, 365),
           CellOf("plain", {}, {"load_zachery", "g"}, 387),
           CellOf("plain", {"g"}, {"g"}, 407),
           CellOf("plain", {"g"}, {}, 425),
           CellOf("plain", {"nn", "g"}, {"node_embed", "inputs"}, 444),
           CellOf("labels", {"g"}, {"random", "np", "labels", "labeled_nodes"}, 465),
           CellOf("plain", {"nn"}, {"SAGEConv", "GraphSAGE", "net"}, 500),
           CellOf("plain", {"net"}, {"net"}, 536),
           CellOf("train", {"torch", "itertools", "net", "node_embed"},
                  {"optimizer", "all_logits"}, 545),
           CellOf("check", {"torch", "logits", "np", "labels", "labeled_nodes"},
                  {"pred", "test_nodes"}, 575) >>

\* The lines of the training loop's forward pass and of its loss, where
\* labeled_nodes is read.
ForwardLine(b) == IF b = "gnn" THEN 271 ELSE 553
LossLine(b) == IF b = "gnn" THEN 275 ELSE 557

NoKernel == [cell |-> 0, names |-> {}, status |-> "ok", line |-> 0, stale |-> FALSE]
NoData == [sample |-> {}, train_nodes |-> {}, labeled_nodes |-> {}, test_nodes |-> {}]
NoLoop == [pc |-> "idle", e |-> 0, steps |-> <<>>, version |-> 0, logits |-> -1,
           loss_nodes |-> {}, all_logits |-> <<>>, printed |-> <<>>]
NoResult == [printed |-> FALSE, correct |-> {}, hits |-> 0, len |-> 0]

NoTraining ==
    /\ book = "none"
    /\ kernel = NoKernel
    /\ data = NoData
    /\ loop = NoLoop
    /\ result = NoResult

\* The message-passing session's variables, which these notebooks leave alone.
mvars == <<names, cell, g, ndata, edata, conv, last, udf, seen>>

\* The next cell of the notebook, when the kernel can run one.
HasNext == book \in Books /\ kernel.status = "ok" /\ kernel.cell < Len(Cells(book))
NextCell == Cells(book)[kernel.cell + 1]

\* A cell that reads a global name nobody bound raises NameError and the run
\* stops there.
Raised(line) == [kernel EXCEPT !.status = "NameError", !.line = line]
Ran(c) == [kernel EXCEPT !.cell = @ + 1, !.names = @ \cup c.binds]

\* A cell that only imports, loads, builds or moves things.
RunPlainCell ==
    /\ HasNext /\ NextCell.kind = "plain"
    /\ kernel' = IF NextCell.reads \subseteq kernel.names THEN Ran(NextCell)
                 ELSE Raised(NextCell.line)
    /\ UNCHANGED <<book, data, loop, result, mvars>>

\* random.sample(range(len(labels)), 3): three distinct node ids.
Samples ==
    {s \in SUBSET ((0..MaxSampleId) \cup {num_nodes - 1}) : Cardinality(s) = SampleSize}

\* np.unique(list): the distinct values of the list.
np_unique(list) == {list[i] : i \in 1..Len(list)}
\* np.delete(np.arange(n), idx): the ids below n that are not in idx.
np_delete_arange(n, idx) == (0..(n - 1)) \ idx

RECURSIVE SetToSeq(_)
SetToSeq(S) ==
    IF S = {} THEN <<>>
    ELSE LET x == CHOOSE x \in S : TRUE IN <<x>> \o SetToSeq(S \ {x})

\* The labels cell: train_nodes (labeled_nodes in the GPU notebook) is
\* np.unique([0, 33] + random.sample(range(len(labels)), 3)); the CPU notebook
\* also computes test_nodes here.
RunLabelsCell ==
    /\ HasNext /\ NextCell.kind = "labels"
    /\ IF NextCell.reads \subseteq kernel.names
       THEN \E s \in Samples :
              LET drawn == np_unique(<<0, 33>> \o SetToSeq(s))
              IN  /\ data' = IF book = "gnn"
                             THEN [data EXCEPT !.sample = s, !.train_nodes = drawn,
                                       !.test_nodes = np_delete_arange(num_nodes, drawn)]
                             ELSE [data EXCEPT !.sample = s, !.labeled_nodes = drawn]
                  /\ kernel' = Ran(NextCell)
       ELSE kernel' = Raised(NextCell.line) /\ data' = data
    /\ UNCHANGED <<book, loop, result, mvars>>

\* The CPU notebook binds no name labeled_nodes; its recorded outputs come
\* from a kernel that had one: the caller binds it to the labeled nodes of
\* the labels cell.
BindLabeledNodes ==
    /\ book = "gnn" /\ kernel.status = "ok"
    /\ "train_nodes" \in kernel.names /\ "labeled_nodes" \notin kernel.names
    /\ loop.pc = "idle"
    /\ kernel' = [kernel EXCEPT !.names = @ \cup {"labeled_nodes"}, !.stale = TRUE]
    /\ data' = [data EXCEPT !.labeled_nodes = data.train_nodes]
    /\ UNCHANGED <<book, loop, result, mvars>>

\* --- the training cell, statement by statement

\* A step of the loop body: it runs when the loop is at `at`, reads `reads`,
\* and leaves the loop at `to`; a name that is not bound ends the cell with
\* NameError.
Reads(S) == S \subseteq kernel.names
AtStep(at) == book \in Books /\ kernel.status = "ok" /\ loop.pc = at
Did(step, to) == [loop EXCEPT !.pc = to, !.steps = Append(@, step)]

\* optimizer = torch.optim.Adam(...); all_logits = []; for e in range(100):
TrainSetup ==
    /\ HasNext /\ NextCell.kind = "train" /\ loop.pc = "idle"
    /\ IF Reads(NextCell.reads)
       THEN /\ kernel' = [kernel EXCEPT !.names = @ \cup NextCell.binds \cup {"e"}]
            /\ loop' = [loop EXCEPT !.pc = "forward", !.e = 0, !.all_logits = <<>>]
       ELSE kernel' = Raised(NextCell.line) /\ loop' = loop
    /\ UNCHANGED <<book, data, result, mvars>>

\* logits = net(g, inputs): the logits of the parameters as they are now.
EpochForward ==
    /\ AtStep("forward")
    /\ IF Reads({"net", "g", "inputs", "F"})
       THEN /\ loop' = [Did("forward", "loss") EXCEPT !.logits = loop.version]
            /\ kernel' = [kernel EXCEPT !.names = @ \cup {"logits"}]
       ELSE /\ kernel' = Raised(ForwardLine(book))
            /\ loop' = [loop EXCEPT !.pc = "failed"]
    /\ UNCHANGED <<book, data, result, mvars>>

\* logp = F.log_softmax(logits, 1)
\* loss = F.nll_loss(logp[labeled_nodes], labels[labeled_nodes])
EpochLoss ==
    /\ AtStep("loss")
    /\ IF Reads({"F", "logits", "labeled_nodes", "labels"})
       THEN /\ loop' = [Did("loss", "zero_grad") EXCEPT !.loss_nodes = data.labeled_nodes]
            /\ kernel' = [kernel EXCEPT !.names = @ \cup {"logp", "loss"}]
       ELSE /\ kernel' = [Raised(LossLine(book)) EXCEPT !.names = @ \cup {"logp"}]
            /\ loop' = [loop EXCEPT !.pc = "failed"]
    /\ UNCHANGED <<book, data, result, mvars>>

\* optimizer.zero_grad()
EpochZeroGrad ==
    /\ AtStep("zero_grad")
    /\ loop' = Did("zero_grad", "backward")
    /\ UNCHANGED <<book, kernel, data, result, mvars>>

\* loss.backward()
EpochBackward ==
    /\ AtStep("backward")
    /\ loop' = Did("backward", "step")
    /\ UNCHANGED <<book, kernel, data, result, mvars>>

\* optimizer.step(): the parameters move on; logits keeps the old values.
EpochStep ==
    /\ AtStep("step")
    /\ loop' = [Did("step", "append") EXCEPT !.version = @ + 1]
    /\ UNCHANGED <<book, kernel, data, result, mvars>>

\* all_logits.append(logits.detach())
EpochAppend ==
    /\ AtStep("append")
    /\ loop' = [Did("append", "print") EXCEPT !.all_logits = Append(@, loop.logits)]
    /\ UNCHANGED <<book, kernel, data, result, mvars>>

\* if e % 5 == 0: print('In epoch {}, loss: {}'.format(e, loss)), and on to
\* the next e of range(100) or out of the cell.
EpochPrint ==
    /\ AtStep("print")
    /\ LET shown == IF loop.e % PrintEvery = 0 THEN Append(loop.printed, loop.e)
                    ELSE loop.printed
       IN  IF loop.e + 1 < NumEpochs
           THEN /\ loop' = [loop EXCEPT !.pc = "forward", !.e = @ + 1,
                                        !.steps = <<>>, !.printed = shown]
                /\ kernel' = kernel
           ELSE /\ loop' = [loop EXCEPT !.pc = "done", !.printed = shown]
                /\ kernel' = [kernel EXCEPT !.cell = @ + 1]
    /\ UNCHANGED <<book, data, result, mvars>>

\* --- the check-results cell

\* The sets of nodes on which pred == labels can hold.
Predictions(test) ==
    {{}, KarateNodes, test, KarateNodes \ test, {n \in KarateNodes : n % 2 = 0}}

\* pred = torch.argmax(logits, axis=1)
\* print('Accuracy', (pred == labels)[test_nodes].sum().item() / len(...)):
\* the CPU notebook divides by len(pred), the GPU notebook computes
\* test_nodes here and divides by len(test_nodes).
RunCheckCell ==
    /\ HasNext /\ NextCell.kind = "check"
    /\ IF Reads(NextCell.reads)
       THEN LET test == IF book = "gnn" THEN data.test_nodes
                        ELSE np_delete_arange(num_nodes, data.labeled_nodes)
            IN  \E correct \in Predictions(test) :
                  /\ result' = [printed |-> TRUE, correct |-> correct,
                                hits |-> Cardinality(correct \cap test),
                                len |-> IF book = "gnn" THEN num_nodes
                                        ELSE Cardinality(test)]
                  /\ data' = [data EXCEPT !.test_nodes = test]
                  /\ kernel' = Ran(NextCell)
       ELSE kernel' = Raised(NextCell.line) /\ result' = result /\ data' = data
    /\ UNCHANGED <<book, loop, mvars>>

\* ------------------------------------------------------- specifications

\* One application of forward (and of the user-defined message function) to
\* every graph, layer and input, in a kernel where every name is bound.
InitFn ==
    /\ names = {"dgl", "torch", "nn", "F", "GraphConvWithEdgeWeight", "u_mul_e_udf", "fn"}
    /\ cell = 3
    /\ g \in Graphs
    /\ ndata = NoFrame(NFields)
    /\ edata = NoFrame(EFields)
    /\ conv \in Layers
    /\ last = NoCall
    /\ udf = NoUdf
    /\ seen = NoSeen
    /\ NoTraining

NextFn == ~last.called /\ Forward

SpecFn == InitFn /\ [][NextFn]_vars

\* The same with the user-defined message function run next to the built-in.
InitUdf ==
    /\ names = {"dgl", "torch", "nn", "F", "GraphConvWithEdgeWeight", "u_mul_e_udf", "fn"}
    /\ cell = 3
    /\ g \in Graphs
    /\ ndata = NoFrame(NFields)
    /\ edata = NoFrame(EFields)
    /\ conv = GraphConvWithEdgeWeight(1, 2, 1)
    /\ last = NoCall
    /\ udf = NoUdf
    /\ seen = NoSeen
    /\ NoTraining

NextUdf == ForwardAnyShape \/ UdfOnLast

SpecUdf == InitUdf /\ [][NextUdf]_vars

\* A kernel session on 4_message_passing.ipynb: the cells run top to bottom,
\* and the caller constructs the module and calls it any number of times.
Init ==
    /\ names = {}
    /\ cell = 0
    /\ g \in SessionGraphs
    /\ \/ ndata = NoFrame(NFields) /\ edata = NoFrame(EFields)
       \/ ndata \in OldNData /\ edata = OldEData(g)
    /\ conv = NoLayer
    /\ last = NoCall
    /\ udf = NoUdf
    /\ seen = NoSeen
    /\ NoTraining

Next ==
    \/ CellImports
    \/ CellClass
    \/ CellUdf
    \/ BindFn
    \/ Construct
    \/ SessionForward

Spec == Init /\ [][Next]_vars

\* A kernel on one of the node-classification notebooks, its cells run top to
\* bottom.
InitTrain ==
    /\ names = {}
    /\ cell = 0
    /\ g = <<>>
    /\ ndata = NoFrame(NFields)
    /\ edata = NoFrame(EFields)
    /\ conv = NoLayer
    /\ last = NoCall
    /\ udf = NoUdf
    /\ seen = NoSeen
    /\ book \in Books
    /\ kernel = NoKernel
    /\ data = NoData
    /\ loop = NoLoop
    /\ result = NoResult

NextTrain ==
    \/ RunPlainCell
    \/ RunLabelsCell
    \/ BindLabeledNodes
    \/ TrainSetup
    \/ EpochForward
    \/ EpochLoss
    \/ EpochZeroGrad
    \/ EpochBackward
    \/ EpochStep
    \/ EpochAppend
    \/ EpochPrint
    \/ RunCheckCell

SpecTrain == InitTrain /\ [][NextTrain]_vars

\* The same kernel, which runs the next statement as long as there is one.
FairSpecTrain == SpecTrain /\ WF_vars(NextTrain)

\* A fresh kernel on any of the three notebooks.
InitNotebooks == Init \/ InitTrain

NextNotebooks ==
    \/ book = "none" /\ Next
    \/ book \in Books /\ NextTrain

SpecNotebooks == InitNotebooks /\ [][NextNotebooks]_vars

\* ------------------------------------------------------------ properties

\* The weight of edge e as one scalar (a 1-D entry or the entry of a column).
ScalarOf(w, e) == IF w.nd = 1 THEN w.v[e] ELSE w.v[e][1]

\* The edges entering v, latest first.
RECURSIVE Latest(_)
Latest(S) ==
    IF S = {} THEN <<>>
    ELSE LET x == CHOOSE x \in S : \A y \in S : y <= x
         IN  <<x>> \o Latest(S \ {x})

\* Sum over the edges entering v of (feature j of the edge's source) x (the
\* edge's weight), written from the graph rather than from the messages.
WeightedSum(gr, h, w, v, j) ==
    LET es == Latest({e \in 1..Len(gr) : gr[e][2] = v})
    IN  RSum([i \in 1..Len(es) |-> RMul(h.v[gr[es[i]][1] + 1][j], ScalarOf(w, es[i]))])

Perms(n) == {p \in [1..n -> 1..n] : \A a, b \in 1..n : p[a] = p[b] => a = b}

\* The last call got as far as reading h_neigh after a message passing.
Aggregated == last.called /\ last.h_neigh # Absent /\ Len(g) > 0

\* C2: for every node v with in-degree k >= 1, h_neigh[v] is the elementwise
\* mean of the k messages of its incoming edges (parallel edges counted
\* separately, divisor k), and every enumeration order of the edges gives the
\* same h_neigh.
C2_MeanOfIncoming ==
    Aggregated =>
        /\ \A v \in Nodes :
            LET k == Cardinality({e \in 1..Len(g) : g[e][2] = v})
            IN  k >= 1 =>
                  /\ Len(last.h_neigh.v[v + 1]) = last.h.cols
                  /\ \A j \in 1..last.h.cols :
                        RMul(R(k), last.h_neigh.v[v + 1][j])
                            = WeightedSum(g, last.h, last.w, v, j)
        /\ \A p \in Perms(Len(g)) :
            LET g2 == [i \in 1..Len(g) |-> g[p[i]]]
                w2 == Vec([i \in 1..Len(g) |-> last.w.v[p[i]]])
            IN  mean(g2, u_mul_e(g2, last.h, w2)) = last.h_neigh

\* C2 witness: the end-to-end example, edges 0->2 and 1->2 of weight 1/2 and
\* features [1,0], [0,1], [0,0]: h_neigh[2] = [1/4, 1/4].
C2_Witness ==
    /\ Aggregated
    /\ g = <<<<0, 2>>, <<1, 2>>>>
    /\ last.h = NodeFeature(2, 0)
    /\ last.w = Vec(<<Rat(1, 2), Rat(1, 2)>>)
    /\ last.h_neigh.v[3] = <<Rat(1, 4), Rat(1, 4)>>

\* C3: the message of every edge u->v is the source's feature h[u] scaled by
\* that edge's own scalar weight.
C3_MessageIsScaledSource ==
    (last.called /\ last.m # Absent) =>
        /\ last.m.rows = Len(g)
        /\ \A e \in 1..Len(g) :
            last.m.v[e] = [j \in 1..last.h.cols |->
                              RMul(last.h.v[g[e][1] + 1][j], ScalarOf(last.w, e))]

\* C3 witness: an edge between two nodes of different features, next to an
\* edge of another weight, has sent a non-zero message.
C3_Witness ==
    /\ last.called /\ last.m # Absent
    /\ \E e, e2 \in 1..Len(g) :
        /\ g[e][1] # g[e][2]
        /\ last.h.v[g[e][1] + 1] # last.h.v[g[e][2] + 1]
        /\ ScalarOf(last.w, e) # ScalarOf(last.w, e2)
        /\ \E j \in 1..last.m.cols : last.m.v[e][j] # R(0)

\* The arguments of the last call are what the layer is documented to take:
\* one row per node of width in_feat, one scalar weight per edge, in a kernel
\* where the name fn is bound.
ValidCall ==
    /\ last.called
    /\ last.fn
    /\ last.h.nd = 2 /\ last.h.rows = NumNodes /\ last.h.cols = conv.in_feat
    /\ last.w.rows = Len(g) /\ FeatCols(last.w) = 1

Zeros(c) == [j \in 1..c |-> R(0)]

\* C4: a valid call returns, and every node without incoming edges has the
\* zero vector of width in_feat as h_neigh and a row in the output; this
\* includes the graphs without any edge.
C4_ZeroInDegreeFallback ==
    ValidCall =>
        \A v \in Nodes :
            (~\E e \in 1..Len(g) : g[e][2] = v) =>
                /\ last.status = "ok"
                /\ last.h_neigh.v[v + 1] = Zeros(conv.in_feat)
                /\ Len(last.out.v[v + 1]) = conv.out_feat

\* C4 witness: a valid call on a graph without edges returned; every node has
\* in-degree 0 and a zero h_neigh, next to a feature of its own that is not
\* zero.
C4_Witness ==
    /\ ValidCall /\ Len(g) = 0
    /\ last.status = "ok"
    /\ \A v \in Nodes : last.h_neigh.v[v + 1] = Zeros(conv.in_feat)
    /\ \E v \in Nodes : last.h.v[v + 1] # Zeros(conv.in_feat)
    /\ last.out.rows = NumNodes

\* C5: node features of a width other than in_feat, with one row per node and
\* one scalar weight per edge: the call fails with DimensionMismatch and
\* returns nothing, whatever the graph.
C5_WidthMismatchFails ==
    (/\ last.called /\ last.fn
     /\ last.h.nd = 2 /\ last.h.rows = NumNodes
     /\ last.w.rows = Len(g) /\ FeatCols(last.w) = 1
     /\ last.h.cols # conv.in_feat)
        => (last.status = DimensionMismatch /\ last.out = Absent)

\* C5 witness: on a graph without edges, features narrower than in_feat were
\* aggregated and then refused by the projection.
C5_Witness ==
    /\ last.called /\ last.fn /\ Len(g) = 0
    /\ last.h.nd = 2 /\ last.h.cols < conv.in_feat
    /\ last.h_neigh # Absent
    /\ last.status = DimensionMismatch /\ last.out = Absent

\* C6 (as claimed): edge weights that do not cover every edge make the call
\* fail with UndefinedWeight before any message is computed, and nothing is
\* returned.
C6_UndefinedWeight ==
    (last.called /\ last.w.rows # Len(g)) =>
        /\ last.status = UndefinedWeight
        /\ last.m = Absent /\ last.h_neigh = Absent /\ last.out = Absent

\* C6 (amended): the same for node features that have one row per node.
C6_UndefinedWeightGivenFeatures ==
    (last.called /\ last.h.rows = NumNodes /\ last.w.rows # Len(g)) =>
        /\ last.status = UndefinedWeight
        /\ last.m = Absent /\ last.h_neigh = Absent /\ last.out = Absent

\* C6 witness: a call with a weight missing was refused at line 99.
C6_Witness ==
    /\ last.called /\ last.h.rows = NumNodes
    /\ last.w.rows < Len(g)
    /\ last.status = UndefinedWeight

\* Entry j of the 2F-wide input of the projection for node v: the node's own
\* feature first, the aggregated neighbour feature after it.
Concat(v, j) ==
    IF j <= last.h.cols THEN last.h.v[v + 1][j]
    ELSE last.h_neigh.v[v + 1][j - last.h.cols]

Projected(v, o) ==
    RSum([j \in 1..(2 * conv.in_feat) |-> RMul(conv.weight[o][j], Concat(v, j))])

Scales == {R(0), R(2), R(-1), Rat(1, 3)}

\* C8: multiplying the weight of every edge entering a destination node v by
\* c multiplies h_neigh[v] by c and leaves h_neigh of every other node as it
\* was.
C8_LinearInWeights ==
    Aggregated =>
        \A v \in Nodes : \A c \in Scales :
            (\E e \in 1..Len(g) : g[e][2] = v) =>
                LET w2 == Vec([e \in 1..Len(g) |->
                                IF g[e][2] = v THEN RMul(c, last.w.v[e]) ELSE last.w.v[e]])
                    hn2 == mean(g, u_mul_e(g, last.h, w2))
                IN  \A u \in Nodes :
                        hn2.v[u + 1] =
                            IF u = v
                            THEN [j \in 1..last.h_neigh.cols |->
                                     RMul(c, last.h_neigh.v[u + 1][j])]
                            ELSE last.h_neigh.v[u + 1]

\* C8 witness: two destination nodes, both with a non-zero h_neigh.
C8_Witness ==
    /\ Aggregated
    /\ \E u, v \in Nodes :
        /\ u # v
        /\ \E e \in 1..Len(g) : g[e][2] = u
        /\ \E e \in 1..Len(g) : g[e][2] = v
        /\ last.h_neigh.v[u + 1] # Zeros(last.h_neigh.cols)
        /\ last.h_neigh.v[v + 1] # Zeros(last.h_neigh.cols)

\* C1 (as claimed): no step of a session, the calls of forward included,
\* changes the fields stored on g or their values.
C1_GraphDataUntouched == [][ndata' = ndata /\ edata' = edata]_vars

\* C9: a call with the arguments of the session's first call, in a kernel with
\* the same names bound, ends as the first call did and returns the same
\* output, whatever calls ran in between.
C9_Deterministic ==
    (/\ seen.called /\ last.called
     /\ last.h = seen.h /\ last.w = seen.w /\ last.fn = seen.fn)
        => (last.status = seen.status /\ last.out = seen.out)

\* C9 witness: the first call returned, a failed and a successful call with
\* other arguments followed, and the first call's arguments returned again.
C9_Witness ==
    /\ seen.called /\ last.called
    /\ last.h = seen.h /\ last.w = seen.w
    /\ seen.between = {TRUE, FALSE}
    /\ seen.status = "ok" /\ last.status = "ok"
    /\ ndata # NoFrame(NFields)

\* C10 (as claimed): u_mul_e_udf in place of fn.u_mul_e('h', 'w', 'm') sends
\* the same messages and gives the same h_neigh.
C10_UdfEquivalent ==
    (udf.status # "none" /\ last.m # Absent) =>
        /\ udf.status = "ok"
        /\ udf.m = last.m
        /\ udf.h_neigh = last.h_neigh

\* C10 holds of edge weights given as a column (one row per edge, width 1).
C10_UdfEquivalentOnColumns ==
    (udf.status # "none" /\ last.m # Absent /\ last.w.nd = 2) =>
        /\ udf.status = "ok"
        /\ udf.m = last.m
        /\ udf.h_neigh = last.h_neigh

\* The nodes whose labels entered the training loss, once a loss was computed.
LossComputed == "loss" \in kernel.names

\* C11 (as claimed): the labeled nodes of the labels cell, and the nodes whose
\* labels enter the training loss, are exactly {0, 33}, whatever the sample.
C11_OnlyNodes0And33Labeled ==
    /\ "train_nodes" \in kernel.names => data.train_nodes = {0, 33}
    /\ "labeled_nodes" \in kernel.names => data.labeled_nodes = {0, 33}
    /\ LossComputed => loop.loss_nodes = {0, 33}

\* C11, what the code keeps: nodes 0 and 33 are labeled together with the
\* sampled nodes, three to five nodes in all, and the loss is taken over them.
C11_LabeledNodesIncludeSample ==
    LET labeled == IF book = "gnn" THEN data.train_nodes ELSE data.labeled_nodes
    IN  /\ ("train_nodes" \in kernel.names \/ "labeled_nodes" \in kernel.names) =>
              /\ labeled = {0, 33} \cup data.sample
              /\ Cardinality(labeled) \in SampleSize..(SampleSize + 2)
        /\ LossComputed => loop.loss_nodes = {0, 33} \cup data.sample

\* The statements of one epoch in the order of the loop body.
EpochOrder == <<"forward", "loss", "zero_grad", "backward", "step", "append">>

\* The shape of the training loop: at the end of epoch e its statements ran in
\* the order of EpochOrder and all_logits has e + 1 snapshots; snapshot k holds
\* the logits of the parameters before update k; out of the loop, 100 epochs
\* and 100 updates are done and the epochs 0, 5, ..., 95 were printed.
EpochShape ==
    /\ loop.pc = "print" =>
          /\ loop.steps = EpochOrder
          /\ Len(loop.all_logits) = loop.e + 1
    /\ \A k \in 1..Len(loop.all_logits) : loop.all_logits[k] = k - 1
    /\ loop.pc = "done" =>
          /\ loop.e = NumEpochs - 1
          /\ loop.version = NumEpochs
          /\ Len(loop.all_logits) = NumEpochs
          /\ loop.printed = [i \in 1..(NumEpochs \div PrintEvery) |-> PrintEvery * (i - 1)]

\* C12 (as claimed): the training cell always ends after exactly 100 epochs,
\* each epoch running forward, loss, zero_grad, backward, step, snapshot in
\* that order, with e + 1 snapshots after epoch e and 20 printed lines.
C12_TrainingRuns100Epochs == []EpochShape /\ <>(loop.pc = "done")

\* C12 holds of the GPU notebook, which binds labeled_nodes before the loop.
C12_GpuTrainingRuns100Epochs ==
    (book = "gpu") => ([]EpochShape /\ <>(loop.pc = "done"))

\* The printed value hits / len is the share of the test nodes predicted
\* correctly: between 0 and 1, and 1 exactly when every test node is correct.
AccuracyOverTestNodes ==
    /\ result.len = Cardinality(data.test_nodes)
    /\ result.hits = Cardinality(result.correct \cap data.test_nodes)
    /\ result.hits <= result.len
    /\ result.hits = result.len <=> data.test_nodes \subseteq result.correct

\* C13 (as claimed): in both notebooks the printed accuracy is the number of
\* correctly predicted test nodes divided by the number of test nodes.
C13_AccuracyOverTestNodes == result.printed => AccuracyOverTestNodes

\* C13 holds of the GPU notebook, which divides by len(test_nodes).
C13_GpuAccuracyOverTestNodes ==
    (result.printed /\ book = "gpu") => AccuracyOverTestNodes

\* C14 (as claimed): in a kernel that ran only the notebook's cells, top to
\* bottom, no cell and no call of forward made after its cell ends with
\* NameError: every global name read was bound by an earlier statement.
C14_NamesBoundBeforeUse ==
    /\ (book \in Books /\ ~kernel.stale) => kernel.status # "NameError"
    /\ (last.called /\ ~last.fn) => last.status # NameErrorFn

\* C15 (as claimed): a call of forward that fails leaves the node and edge
\* data of g as they were before the call.
C15_FailedCallRestoresGraph ==
    [][(last'.called /\ last'.status # "ok") => (ndata' = ndata /\ edata' = edata)]_vars

====
